---- MODULE Spec2Model ----
(***************************************************************************)
(* Model of create.py: the feature synthesis pipeline.                     *)
(*   __main__   discovery, planning of list_feature, resume check          *)
(*   process    the Orchestrator: pools, bounded queues, drain, metadata   *)
(*   propagate  a Propagator task (pool_propagater)                        *)
(*   calc_dirspecs  an Extractor (one per device, pool_extractor)          *)
(* The output directory (feature files and metadata.mat) is part of the    *)
(* state, so that a run can be followed by a rerun over what it left.      *)
(***************************************************************************)
EXTENDS Integers, Sequences, FiniteSets, TLC

\* ------------------------------------------------------------------ bounds
\* largest hp.n_data_per_room (number of planned features)
MaxFeature == 4
\* largest len(hp.device)
MaxDev == 2
\* largest mp.cpu_count() // 2
MaxHalfCpu == 4
\* most negative --from value tried is -MaxNeg
MaxNeg == 4
\* number of speech files found / number of RIR locations
NSpeech == 2
NLoc == 2
\* number of runs of the program over the same output directory
MaxRuns == 2
\* seltriag: longest Ain, largest nrord
MaxLen == 9
MaxOrd == 2
\* framing: largest hp.n_fft, longest speech signal, longest RIR
MaxFft == 8
MaxSpeech == 8
MaxRIR == 6
\* a reference metadata file comes from a run with up to NLoc + ExtraLocRef
\* RIR locations
ExtraLocRef == 1
\* most characters of a speech path in path_all_speech
MaxPath == 19
\* a run is killed, or a worker of it raises, only in the first FaultRuns runs
FaultRuns == 1
\* most workers that raise in one run
MaxFail == 1

\* ------------------------------------------------------- program constants
\* manager.Queue(3) per device, manager.Queue(3 * n_cuda_dev) for the output
QDataCap == 3
QOutFactor == 3
\* Pool(min(n_cuda_dev * 3, cpu_count // 2 - 1 - n_cuda_dev))
PoolFactor == 3
\* --from default: automatic resume
FromDefault == -1
\* idx_exist = -2: all files already exist
AllExist == -2

\* hp.room_create
room_create == "room"

Min(a, b) == IF a < b THEN a ELSE b
Max(a, b) == IF a > b THEN a ELSE b

\* ----------------------------------------------------- python list helpers
\* the start of the slice L[start:] or L[start::step] of a list of length n
PyStart(start, n) == IF start < 0 THEN Max(start + n, 0) ELSE Min(start, n)

\* L[i] for a python index i, negative indices counted from the end
PyIndex(L, i) == IF i < 0 THEN L[Len(L) + i + 1] ELSE L[i + 1]

\* L[start:]
SliceFrom(L, start) == SubSeq(L, PyStart(start, Len(L)) + 1, Len(L))

\* len(L[start::step])
StrideLen(L, start, step) ==
    Cardinality({i \in PyStart(start, Len(L))..(Len(L) - 1) :
                    (i - PyStart(start, Len(L))) % step = 0})

\* len(range(a, b))
RangeLen(a, b) == Max(b - a, 0)

\* ---------------------------------------------------------- file names
\* room.split('_'): the texts between the underscores of a room identifier
SplitRoom(room) == IF room = "o_r" THEN <<"o", "r">> ELSE <<room>>

\* hp.form_feature.format(idx, i_speech, room, i_loc), as the texts between
\* the underscores of the name: idx, i_speech, those of the room, i_loc
FormFeature(idx, i_speech, room, i_loc) ==
    <<idx, i_speech>> \o SplitRoom(room) \o <<i_loc>>

list_feature_to_fname(L) ==
    [i \in 1..Len(L) |-> FormFeature(i - 1, L[i][1], L[i][2], L[i][3])]

\* mutant: every name kept, whatever its location index
list_fname_to_featureAll(F) ==
    [raised |-> \E i \in 1..Len(F) : Len(F[i]) # 4,
     list |-> IF \E i \in 1..Len(F) : Len(F[i]) # 4 THEN <<>>
              ELSE [i \in 1..Len(F) |-> <<F[i][2], room_create, F[i][4]>>]]

\* _, i_speech, _, i_loc = f.split('_') raises ValueError for a name that has
\* not four fields; a name is kept when int(i_loc) < n_loc
list_fname_to_feature(F) ==
    LET keep(f) == f[4] < NLoc
        conv(f) == <<f[2], room_create, f[4]>>
    IN  IF \E i \in 1..Len(F) : Len(F[i]) # 4
        THEN [raised |-> TRUE, list |-> <<>>]
        ELSE [raised |-> FALSE,
              list |-> [i \in 1..Len(SelectSeq(F, keep)) |->
                           conv(SelectSeq(F, keep)[i])]]

\* scio.loadmat(..., squeeze_me=True), lines 538-541: an array of exactly one
\* string is read as that string, not as a list of one string
Squeezed(n) == n = 1

\* list_fname as read at line 545: a list of names, or for one name a string,
\* whose items are its characters; the first, a digit of idx, has one field
SqueezeNames(F) == IF Squeezed(Len(F)) THEN <<<<F[1][1]>>>> ELSE F

\* path_all_speech as read at lines 542-543: the paths, or for one path a
\* string, whose items are its characters
ReadPaths(p) == IF Squeezed(p.n) THEN [n |-> p.chars, chars |-> 1] ELSE p

\* lines 542-544, len(flist_speech): the number of paths read, or the number
\* of characters of the path when path_all_speech was read as one string
LenSpeechRead(p) == ReadPaths(p).n

\* no speech path list yet
NoPaths == [n |-> 0, chars |-> 0]

\* line 273, sf.read(str(f_speech)): the entries of flist_speech name sound
\* files when they are whole paths, not when they are single characters
SpeechReadable(P) == P.chars = MaxPath



\* ------------------------------------------------------------ seltriag
\* np.ceil(np.sqrt(x)) for x >= 0
CeilSqrt(x) == CHOOSE k \in 0..x : k * k >= x /\ \A j \in 0..(k - 1) : j * j < x

\* the (ii, jj) of the double loop, in the order the loop visits them
RECURSIVE SelRow(_, _)
SelRow(ii, jj) ==
    IF jj > ii THEN <<>> ELSE <<<<ii, jj>>>> \o SelRow(ii, jj + 1)

RECURSIVE SelIter(_, _)
SelIter(ii, last) ==
    IF ii > last THEN <<>> ELSE SelRow(ii, 0 - ii) \o SelIter(ii + 1, last)

\* mutant: the guard without the bound on idx_from
SelWritesBug(A, nr, sh) ==
    LET N == CeilSqrt(Len(A)) - 1
        it == SelIter(0, N - nr)
        w(k) == LET n == sh[1] + it[k][1]
                    m == sh[2] + it[k][2]
                IN  [idx |-> k - 1, n |-> n, m |-> m, idx_from |-> m + n * (n + 1)]
    IN  {w(k) : k \in {j \in 1..Len(it) :
            /\ 0 - w(j).n <= w(j).m /\ w(j).m <= w(j).n
            /\ 0 <= w(j).n /\ w(j).n <= N}}

\* the assignments Aout[idx] = Ain[idx_from] the loop makes: idx counts the
\* iterations, the guard of line 174 selects those that assign
SelWrites(A, nr, sh) ==
    LET N == CeilSqrt(Len(A)) - 1
        it == SelIter(0, N - nr)
        w(k) == LET n == sh[1] + it[k][1]
                    m == sh[2] + it[k][2]
                IN  [idx |-> k - 1, n |-> n, m |-> m, idx_from |-> m + n * (n + 1)]
    IN  {w(k) : k \in {j \in 1..Len(it) :
            /\ 0 - w(j).n <= w(j).m /\ w(j).m <= w(j).n
            /\ 0 <= w(j).n /\ w(j).n <= N
            /\ w(j).idx_from < Len(A)}}

\* len_new = (N - nrord + 1)**2
SelLenNew(A, nr) == (CeilSqrt(Len(A)) - 1 - nr + 1) * (CeilSqrt(Len(A)) - 1 - nr + 1)

\* an assignment raises IndexError when idx is not an index of Aout or
\* idx_from is not an index of Ain (python: -len <= i < len)
SelRaises(A, nr, sh) ==
    \E w \in SelWrites(A, nr, sh) :
        \/ w.idx >= SelLenNew(A, nr)
        \/ w.idx_from >= Len(A)
        \/ w.idx_from < 0 - Len(A)

\* an assignment that reads Ain through a negative index, from the end
SelWraps(A, nr, sh) == \E w \in SelWrites(A, nr, sh) : w.idx_from < 0

\* Ain[i] for a python index i that is an index of Ain, zero otherwise
SelRead(A, i) ==
    IF 0 <= i /\ i < Len(A) THEN A[i + 1]
    ELSE IF i < 0 /\ 0 - Len(A) <= i THEN A[Len(A) + i + 1]
    ELSE 0

\* mutant: the source index computed with n and m exchanged
seltriagBug(A, nr, sh) ==
    [k \in 1..SelLenNew(A, nr) |->
        IF \E w \in SelWrites(A, nr, sh) : w.idx = k - 1
        THEN SelRead(A, LET w == CHOOSE w \in SelWrites(A, nr, sh) : w.idx = k - 1
                        IN  w.n + w.m * (w.m + 1))
        ELSE 0]

\* seltriag(Ain, nrord, shft): Aout starts as zeros(len_new) and receives
\* the assignments of the loop
seltriag(A, nr, sh) ==
    [k \in 1..SelLenNew(A, nr) |->
        IF \E w \in SelWrites(A, nr, sh) : w.idx = k - 1
        THEN SelRead(A, (CHOOSE w \in SelWrites(A, nr, sh) : w.idx = k - 1).idx_from)
        ELSE 0]

\* ------------------------------------------------------------- framing
\* hp.n_fft, hp.l_frame, hp.l_hop and hp.n_freq: an even fft size with
\* n_freq = n_fft / 2 + 1 bins, frames as long as the filter has bins
\* (bnkr_inv is Order x N_fft x 1), a hop of at most one frame
FrameConfigs ==
    {c \in {[n_fft |-> 2 * h, l_frame |-> 2 * h, l_hop |-> p, n_freq |-> h + 1] :
                h \in 1..(MaxFft \div 2), p \in 1..MaxFft} :
        c.l_hop <= c.l_frame}

\* mutant: a padding on one side only
PaddedBug(x, cfg) == x + (cfg.n_fft \div 2)

\* the length after xp.pad(..., (n_fft // 2, n_fft // 2), mode='reflect')
Padded(x, cfg) == x + 2 * (cfg.n_fft \div 2)

\* the length of A[start:] and of A[:stop] for an axis of length n
LenFrom(n, start) == Max(n - start, 0)
LenTo(n, stop) == Min(n, stop)

\* stft of a signal of x samples: the padded length, the number of frames
\* of the strided view, and the number of time frames of the result
stft(x, cfg) ==
    [fn |-> "stft", len |-> x, padded |-> Padded(x, cfg),
     n_frame |-> (Padded(x, cfg) - cfg.l_frame) \div cfg.l_hop + 1,
     len_istft |-> 0,
     out |-> (Padded(x, cfg) - cfg.l_frame) \div cfg.l_hop + 1]

\* mutant: the leading n_fft samples removed instead of n_fft // 2
filter_overlap_addBug(x, cfg) ==
    [fn |-> "filter_overlap_add", len |-> x, padded |-> Padded(x, cfg),
     n_frame |-> x \div cfg.l_hop + 1,
     len_istft |-> cfg.n_fft + cfg.l_hop * (x \div cfg.l_hop),
     out |-> LenTo(LenFrom(cfg.n_fft + cfg.l_hop * (x \div cfg.l_hop),
                               cfg.n_fft), x)]

\* filter_overlap_add of a signal of x samples: the padded length, the
\* number of frames, the length of the overlap-add buffer and the length of
\* filtered[:, n_fft // 2:][:, :len_original]
filter_overlap_add(x, cfg) ==
    [fn |-> "filter_overlap_add", len |-> x, padded |-> Padded(x, cfg),
     n_frame |-> x \div cfg.l_hop + 1,
     len_istft |-> cfg.n_fft + cfg.l_hop * (x \div cfg.l_hop),
     out |-> LenTo(LenFrom(cfg.n_fft + cfg.l_hop * (x \div cfg.l_hop),
                               cfg.n_fft \div 2), x)]

\* mutant: the convolution cut to the length of the speech
propagateBug(ls, lr, tp) == [data |-> tp + ls, data_room |-> ls]

\* propagate: the lengths of data (t_peak zeros, then the speech) and of
\* data_room (the full convolution of the speech with the RIR)
propagate(ls, lr, tp) == [data |-> tp + ls, data_room |-> ls + lr - 1]

\* the stft and filter_overlap_add calls of calc_dirspecs on one signal
FreeCalls(s, cfg) == {stft(s.data, cfg)}
RoomCalls(s, dirac, cfg) ==
    IF dirac
    THEN {filter_overlap_add(s.data_room, cfg),
          stft(filter_overlap_add(s.data_room, cfg).out, cfg)}
    ELSE {stft(s.data_room, cfg)}

\* the shapes of the arrays of dict_result
calc_dirspecs(s, dirac, cfg) ==
    LET Tfree == stft(s.data, cfg).out
        Troom == IF dirac
                 THEN stft(filter_overlap_add(s.data_room, cfg).out, cfg).out
                 ELSE stft(s.data_room, cfg).out
    IN  [dirspec_free |-> <<cfg.n_freq, Tfree, 4>>,
         dirspec_room |-> <<cfg.n_freq, Troom, 4>>,
         phase_free |-> <<cfg.n_freq, Tfree, 1>>,
         phase_room |-> <<cfg.n_freq, Troom, 1>>]

\* ------------------------------------------------------------- SFTData
\* the fields of the dataclass SFTData; a field holds its dtype, or None
SIVFields == {"Wpv_1_1_m1", "Wpv_1_0_0", "Wnv_1_0_0", "Wnv_1_1_1",
              "Vv_1_0_0", "Vv_1_1_0"}
SFTFields == {"Yenc", "bnkr_inv"} \cup SIVFields \cup {"T_real"}

\* the dtypes a variable of the constants archive can have
FileDtypes == {"float32", "float64", "complex64", "complex128", "int32"}

\* the dtypes of bEQf in the archive the pipeline is run with
ArchiveDtypes == {"complex128", "int32"}

\* the dtypes as_single_prec accepts
SupportedDtypes == {"float32", "float64", "complex64", "complex128"}

\* SFTData(): every field None
SFTEmpty == [k \in SFTFields |-> "None"]

\* sft_dict['Yenc'].T / np.sqrt(4 * np.pi) / n_mic: an integer array becomes float64
TrueDivide(dt) == IF dt = "int32" THEN "float64" ELSE dt

\* lines 492-496: Yenc and bnkr_inv as loaded from the archive
LoadSFT(dtYenc, dtbEQf) ==
    [SFTEmpty EXCEPT !["Yenc"] = TrueDivide(dtYenc), !["bnkr_inv"] = dtbEQf]

\* mutant: both variants populated
SelectVariantBug(sft, dirac) ==
    [k \in SFTFields |->
        IF k \in SIVFields \cup {"T_real"} THEN "complex64" ELSE sft[k]]

\* lines 498-512: T_real for DirAC, the six seltriag tensors otherwise
SelectVariant(sft, dirac) ==
    [k \in SFTFields |->
        IF dirac /\ k = "T_real" THEN "complex64"
        ELSE IF ~dirac /\ k \in SIVFields THEN "complex64"
        ELSE sft[k]]

\* v.astype(float32 | complex64), or v itself
SinglePrec(dt) ==
    IF dt = "float64" THEN "float32"
    ELSE IF dt = "complex128" THEN "complex64" ELSE dt

\* SFTData.as_single_prec: the exception raised, if any, and the record returned
as_single_prec(sft) ==
    IF \E k \in SFTFields : sft[k] # "None" /\ sft[k] \notin SupportedDtypes
    THEN [raised |-> "NotImplementedError", value |-> sft]
    ELSE [raised |-> "",
          value |-> [k \in SFTFields |->
                        IF sft[k] = "None" THEN "None" ELSE SinglePrec(sft[k])]]

\* SFTData(**{k: cp.array(v) for k, v in asdict(sftdata).items() if v is not None})
DeviceCopy(sft) ==
    [k \in SFTFields |-> IF sft[k] # "None" THEN sft[k] ELSE "None"]

\* the branch calc_dirspecs takes: if use_dirac ... else ...
ExtractorPath(dirac) == IF dirac THEN "direction" ELSE "intensity"


\* ------------------------------------------------------------------- state
VARIABLES
    \* inputs of a run: len(hp.device), mp.cpu_count(), args.from_idx,
    \* hp.s_path_metadata, hp.n_data_per_room, the dtype of bEQf in the
    \* constants archive, the number of .wav files under path_speech
    n_cuda_dev, cpu_count, from_idx, s_path_metadata, n_per_room, dt_bEQf, n_wav,
    \* the output directory: path_result, its feature files, metadata.mat
    dir_exists, files, f_metadata,
    \* globals set by __main__; flist_speech by the number of its entries and
    \* the number of characters of each
    pc, list_feature, flist_speech, idx_start,
    \* process(): tasks submitted, the pool's task queue, the pool workers,
    \* the device queues, the Extractors, the output queue, the drain loop
    n_sub, taskq, prop, q_data, ext, q_out, n_drained, saving,
    \* history: per idx the signals produced, the signals taken by an
    \* Extractor, the records put on q_out and the files written by this run;
    \* metadata writes of this run; the run number; the directory and the
    \* planned list a completed run left, with the files deleted before the rerun
    nProp, nGet, nPut, nWrite, nMeta, run, snap,
    \* the exception that ended the run, the workers whose task raised
    error, failed,
    \* seltriag: its arguments and its result
    Ain, nrord, shft, Aout,
    \* the reference metadata of a related run: the list its writer planned,
    \* the file it saved, the list read back from it and its n_speech
    list_written, metadata_ref, list_read, n_speech,
    \* the constants: hp.DF == 'DirAC', sftdata, the copy of an Extractor, the
    \* code path the Extractor took
    use_dirac, sftdata, sftdata_cp, path_taken,
    \* framing: hp.n_fft, hp.l_frame and hp.l_hop, the lengths of a speech
    \* signal and of the RIRs, the direct-path delay, the lengths of a
    \* PropagatedSignal, the shapes of its FeatureRecord, and the calls of
    \* stft and filter_overlap_add made so far
    hpf, len_speech, len_RIR, t_peak, sig, rec, calls,
    \* the position of the function under study
    fpc

cfgvars == <<n_cuda_dev, cpu_count, s_path_metadata, n_per_room, dt_bEQf, n_wav>>
dirvars == <<dir_exists, files, f_metadata>>
procvars == <<n_sub, taskq, prop, q_data, ext, q_out, n_drained, saving>>
histvars == <<nProp, nGet, nPut, nWrite>>
selvars == <<Ain, nrord, shft, Aout>>
metavars == <<list_written, metadata_ref, list_read, n_speech>>
constvars == <<use_dirac, sftdata, sftdata_cp, path_taken>>
framevars == <<hpf, len_speech, len_RIR, t_peak, sig, rec, calls>>
fnvars == <<selvars, metavars, constvars, framevars, fpc>>
vars == <<n_cuda_dev, cpu_count, from_idx, s_path_metadata, n_per_room, dt_bEQf,
          n_wav, dir_exists, files, f_metadata, pc, list_feature, flist_speech,
          idx_start,
          n_sub, taskq, prop, q_data, ext, q_out, n_drained, saving,
          nProp, nGet, nPut, nWrite, nMeta, run, snap, error, failed, fnvars>>

\* product(range(n_speech), range(n_loc)) with the room, in order
ProductList ==
    [k \in 1..(n_wav * NLoc) |->
        <<(k - 1) \div NLoc, room_create, (k - 1) % NLoc>>]

\* the k-th smallest element of a finite set of integers (idx_choice.sort())
RECURSIVE SortedSeq(_)
SortedSeq(S) ==
    IF S = {} THEN <<>>
    ELSE LET m == CHOOSE x \in S : \A y \in S : x <= y
         IN  <<m>> \o SortedSeq(S \ {m})

\* np.random.choice(len(list_feature), n_feature, replace=False), sorted:
\* every list the sampling can produce
Samples(n) ==
    {[i \in 1..n |-> ProductList[SortedSeq(S)[i]]] :
        S \in {T \in SUBSET (1..Len(ProductList)) : Cardinality(T) = n}}

\* every idx a run can handle
IdxDom == (0 - MaxNeg - 1)..(MaxFeature + 1)

n_feature == Len(list_feature)

\* ------------------------------------------------------- pure operations
\* mp.Pool(min(n_cuda_dev * 3, mp.cpu_count() // 2 - 1 - n_cuda_dev))
PoolSize == Min(n_cuda_dev * PoolFactor, (cpu_count \div 2) - 1 - n_cuda_dev)

\* mutant: an output queue as small as one device queue
QOutCapBug == QOutFactor

\* manager.Queue(3 * n_cuda_dev)
QOutCap == QOutFactor * n_cuda_dev

\* mutant: a put that also succeeds on a full queue
CanPutBug(q, cap) == Len(q) <= cap

\* Queue.put returns only when the queue holds fewer than maxsize items
CanPut(q, cap) == Len(q) < cap

\* mutant: a put that overwrites the last queued message
QueuePutBug(q, x) == IF q = <<>> THEN <<x>> ELSE [q EXCEPT ![Len(q)] = x]

\* Queue.put appends the item at the tail; Queue.get takes the head
QueuePut(q, x) == Append(q, x)

\* q_data[(idx - idx_start) % n_cuda_dev]
QueueOf(idx, start, ndev) == (idx - start) % ndev

\* mutant: the Extractor quota taken from the whole list
NDataBug(L, start, d, ndev) == StrideLen(L, d, ndev)

\* len(list_feature[idx_start + idx::n_cuda_dev])
NData(L, start, d, ndev) == StrideLen(L, start + d, ndev)

\* mutant: a drain loop that starts one index late
NDrainBug(start, n) == RangeLen(start + 1, n)

\* range_feature = range(idx_start, n_feature): number of drain iterations
NDrain(start, n) == RangeLen(start, n)

\* mutant: the submission loop runs over the whole list
TasksBug(L, start, ndev) ==
    [k \in 1..Len(L) |->
        [idx |-> k - 1, i_speech |-> L[k][1], i_loc |-> L[k][3],
         dev |-> QueueOf(k - 1, 0, ndev)]]

\* zip(range_feature, list_feature[idx_start:]): the propagation tasks
Tasks(L, start, ndev) ==
    LET sl == SliceFrom(L, start)
        n == Min(RangeLen(start, Len(L)), Len(sl))
    IN  [k \in 1..n |->
            [idx |-> start + k - 1, i_speech |-> sl[k][1], i_loc |-> sl[k][3],
             dev |-> QueueOf(start + k - 1, start, ndev)]]

\* propagate(): the PropagatedSignal put on the device queue
Propagate(t) ==
    [idx |-> t.idx, i_speech |-> t.i_speech, i_loc |-> t.i_loc,
     data |-> <<t.i_speech, t.i_loc>>]

\* mutant: a record computed with the position in the run instead of the location
DirSpecsBug(s) ==
    [idx |-> s.idx, i_speech |-> s.i_speech, i_loc |-> s.i_loc,
     dict_result |-> [path_speech |-> s.i_speech,
                      dirspec |-> <<s.i_speech, s.idx - idx_start>>]]

\* calc_dirspecs(): the FeatureRecord computed from one PropagatedSignal
DirSpecs(s) ==
    [idx |-> s.idx, i_speech |-> s.i_speech, i_loc |-> s.i_loc,
     dict_result |-> [path_speech |-> s.i_speech, dirspec |-> s.data]]

\* mutant: the file named by the position of the record in the arrival order
SaveNameBug(r) == FormFeature(idx_start + n_drained, r.i_speech, room_create, r.i_loc)

\* path_result / hp.form_feature.format(idx, i_speech, hp.room_create, i_loc)
SaveName(r) == FormFeature(r.idx, r.i_speech, room_create, r.i_loc)

\* np.savez(p, **dict_result): the file while it is written, and once complete
WriteFile(fs, name, content, done) ==
    [x \in (DOMAIN fs) \cup {name} |->
        IF x = name THEN [data |-> content, complete |-> done] ELSE fs[x]]

\* print_save_info: the metadata saved by scio.savemat
MetaOf(L, P) ==
    <<[path_all_speech |-> P, list_fname |-> list_feature_to_fname(L)]>>

\* metadata.mat as a scio.savemat that did not finish leaves it: the file
\* exists, scio.loadmat cannot read list_fname from it
Truncated == <<[truncated |-> TRUE]>>

\* mutant: a scan without the break, which ends at the last missing file
IdxExistBug(L, fs) ==
    LET names == list_feature_to_fname(L)
        missing == {i \in 1..Len(L) : names[i] \notin DOMAIN fs}
    IN  IF missing = {} THEN AllExist
        ELSE (CHOOSE i \in missing : \A j \in missing : i >= j) - 1 - 1

\* mutant: a scan whose sentinel is -1, as if no file existed
IdxExistAllBug(L, fs) ==
    LET names == list_feature_to_fname(L)
        missing == {i \in 1..Len(L) : names[i] \notin DOMAIN fs}
    IN  IF missing = {} THEN FromDefault
        ELSE (CHOOSE i \in missing : \A j \in missing : i <= j) - 1 - 1

\* the scan for the first feature file that does not exist
IdxExist(L, fs) ==
    LET names == list_feature_to_fname(L)
        missing == {i \in 1..Len(L) : names[i] \notin DOMAIN fs}
    IN  IF missing = {} THEN AllExist
        ELSE (CHOOSE i \in missing : \A j \in missing : i <= j) - 1 - 1

\* mutant: a planning that never looks at hp.s_path_metadata
PlannedListsNoRef ==
    IF f_metadata # <<>>
    THEN {list_fname_to_feature(SqueezeNames(f_metadata[1].list_fname)).list}
    ELSE IF n_per_room <= Len(ProductList) THEN Samples(n_per_room) ELSE {}

\* lines 542-543 and 549: flist_speech, read from the metadata in use or
\* globbed under path_speech
PathsInUse ==
    IF f_metadata # <<>> THEN ReadPaths(f_metadata[1].path_all_speech)
    ELSE [n |-> n_wav, chars |-> MaxPath]

\* the FeatureTuple lists __main__ can plan; none when it raises
PlannedLists ==
    IF s_path_metadata # "" THEN {}
    ELSE IF f_metadata # <<>>
         THEN IF f_metadata = Truncated THEN {}
              ELSE IF list_fname_to_feature(SqueezeNames(f_metadata[1].list_fname)).raised
              THEN {}
              ELSE {list_fname_to_feature(SqueezeNames(f_metadata[1].list_fname)).list}
         ELSE IF n_per_room <= Len(ProductList) THEN Samples(n_per_room) ELSE {}

\* what the run before left: its directory, its planned list, whether it ran
\* to completion, and the files deleted before the rerun
NoSnap == [files |-> <<>>, list |-> <<>>, deleted |-> {}, completed |-> FALSE]

Zero == [i \in IdxDom |-> 0]
Bump(f, i) == [f EXCEPT ![i] = @ + 1]

ResetProcess ==
    /\ n_sub' = 0 /\ taskq' = <<>> /\ prop' = <<>> /\ q_data' = <<>>
    /\ ext' = <<>> /\ q_out' = <<>> /\ n_drained' = 0 /\ saving' = <<>>
    /\ nProp' = Zero /\ nGet' = Zero /\ nPut' = Zero /\ nWrite' = Zero
    /\ nMeta' = 0 /\ error' = "" /\ failed' = {}

\* the variables of the functions studied apart, at rest
SelIdle == Ain = <<>> /\ nrord = 0 /\ shft = <<0, 0>> /\ Aout = <<>>
MetaIdle ==
    list_written = <<>> /\ metadata_ref = <<>> /\ list_read = <<>> /\ n_speech = 0
ConstIdle ==
    use_dirac = FALSE /\ sftdata = SFTEmpty /\ sftdata_cp = <<>> /\ path_taken = <<>>
FrameIdle ==
    /\ hpf = <<>> /\ len_speech = 0 /\ len_RIR = 0 /\ t_peak = 0
    /\ sig = <<>> /\ rec = <<>> /\ calls = {}

\* -------------------------------------------------------------------- Init
Init ==
    /\ n_cuda_dev \in 1..MaxDev
    /\ cpu_count \in {2 * h : h \in 2..MaxHalfCpu}
    /\ from_idx \in (0 - MaxNeg)..(MaxFeature + 1)
    /\ s_path_metadata \in {"", "missing"}
    /\ n_per_room \in 1..MaxFeature
    /\ n_wav \in 1..NSpeech
    /\ dt_bEQf \in ArchiveDtypes
    /\ dir_exists \in BOOLEAN
    /\ files = <<>>
    /\ f_metadata = <<>>
    /\ pc = "main"
    /\ list_feature = <<>> /\ flist_speech = NoPaths
    /\ idx_start = 0
    /\ n_sub = 0 /\ taskq = <<>> /\ prop = <<>> /\ q_data = <<>>
    /\ ext = <<>> /\ q_out = <<>> /\ n_drained = 0 /\ saving = <<>>
    /\ nProp = Zero /\ nGet = Zero /\ nPut = Zero /\ nWrite = Zero
    /\ nMeta = 0 /\ run = 1 /\ snap = NoSnap
    /\ error = "" /\ failed = {}
    /\ SelIdle /\ MetaIdle /\ ConstIdle /\ FrameIdle /\ fpc = "idle"

\* ---------------------------------------------------------------- __main__
\* lines 467-592: makedirs, the constants and as_single_prec, planning of
\* list_feature, the from_idx check, the scan, the start index, the
\* confirmation prompt
Main ==
    /\ pc = "main"
    /\ dir_exists' = TRUE
    /\ UNCHANGED <<cfgvars, from_idx, files, procvars, histvars, run, snap, failed, fnvars>>
    /\ \E dirac \in BOOLEAN, dtYenc \in FileDtypes :
       IF as_single_prec(SelectVariant(LoadSFT(dtYenc, dt_bEQf), dirac)).raised # ""
       THEN /\ pc' = "error" /\ error' = "NotImplementedError"
            /\ UNCHANGED <<list_feature, flist_speech, idx_start, f_metadata, nMeta>>
       ELSE IF PlannedLists = {}
       THEN /\ pc' = "error"
            /\ error' = IF s_path_metadata # "" THEN "Exception"
                        ELSE IF f_metadata = Truncated THEN "MatReadError"
                        ELSE "ValueError"
            /\ UNCHANGED <<list_feature, flist_speech, idx_start, f_metadata, nMeta>>
       ELSE \E L \in PlannedLists :
            /\ list_feature' = L
            /\ flist_speech' = PathsInUse
            /\ IF Len(L) < from_idx
               THEN /\ pc' = "error" /\ error' = "TypeError"
                    /\ UNCHANGED <<idx_start, f_metadata, nMeta>>
               ELSE IF from_idx = FromDefault
               THEN IF IdxExist(L, files) = AllExist
                    THEN /\ f_metadata' = MetaOf(L, PathsInUse)
                         /\ nMeta' = nMeta + 1
                         /\ pc' = "exit"
                         /\ UNCHANGED <<idx_start, error>>
                    ELSE /\ idx_start' = IdxExist(L, files) + 1
                         /\ pc' = "process"
                         /\ UNCHANGED <<f_metadata, nMeta, error>>
               ELSE /\ idx_start' = from_idx
                    /\ pc' = "ask"
                    /\ UNCHANGED <<f_metadata, nMeta, error>>

\* lines 583-590: the confirmation prompt of an explicit --from; input()
\* returns the answer, or raises EOFError when stdin is at end-of-file
Ask ==
    /\ pc = "ask"
    /\ \E ans \in {"y", "n", "eof"} :
          /\ pc' = IF ans = "y" THEN "process"
                   ELSE IF ans = "n" THEN "exit" ELSE "error"
          /\ error' = IF ans = "eof" THEN "EOFError" ELSE error
    /\ UNCHANGED <<cfgvars, from_idx, dirvars, list_feature, flist_speech, idx_start,
                   procvars, histvars, nMeta, run, snap, failed, fnvars>>

\* ----------------------------------------------------------------- process
\* lines 262-286: first metadata write, the pools, the queues, the Extractors
ProcessStart ==
    /\ pc = "process"
    /\ f_metadata' = MetaOf(list_feature, flist_speech)
    /\ nMeta' = nMeta + 1
    /\ IF PoolSize < 1
       THEN /\ pc' = "error" /\ error' = "ValueError"
            /\ UNCHANGED <<prop, q_data, q_out, ext>>
       ELSE IF ~SpeechReadable(flist_speech)
       THEN /\ pc' = "error" /\ error' = "RuntimeError"
            /\ UNCHANGED <<prop, q_data, q_out, ext>>
       ELSE /\ pc' = "submit" /\ error' = error
            /\ prop' = [w \in 1..PoolSize |-> <<>>]
            /\ q_data' = [d \in 1..n_cuda_dev |-> <<>>]
            /\ q_out' = <<>>
            /\ ext' = [d \in 1..n_cuda_dev |->
                         [left |-> NData(list_feature, idx_start, d - 1, n_cuda_dev),
                          hold |-> <<>>]]
    /\ UNCHANGED <<cfgvars, from_idx, dir_exists, files, list_feature, flist_speech, idx_start,
                   n_sub, taskq, n_drained, saving, histvars, run, snap, failed, fnvars>>

\* lines 290-295: one apply_async of the submission loop
Submit ==
    /\ pc = "submit"
    /\ n_sub < Len(Tasks(list_feature, idx_start, n_cuda_dev))
    /\ taskq' = Append(taskq, Tasks(list_feature, idx_start, n_cuda_dev)[n_sub + 1])
    /\ n_sub' = n_sub + 1
    /\ UNCHANGED <<cfgvars, from_idx, dirvars, pc, list_feature, flist_speech, idx_start,
                   prop, q_data, ext, q_out, n_drained, saving, histvars,
                   nMeta, run, snap, error, failed, fnvars>>

\* line 299: pool_propagater.close() after the last submission
SubmitDone ==
    /\ pc = "submit"
    /\ n_sub = Len(Tasks(list_feature, idx_start, n_cuda_dev))
    /\ pc' = "drain"
    /\ UNCHANGED <<cfgvars, from_idx, dirvars, list_feature, flist_speech, idx_start,
                   procvars, histvars, nMeta, run, snap, error, failed, fnvars>>

\* lines 319-326: a pool worker takes the next task and computes its signal
PropTake(w) ==
    /\ w \in DOMAIN prop
    /\ prop[w] = <<>>
    /\ taskq # <<>>
    /\ prop' = [prop EXCEPT ![w] = <<Head(taskq)>>]
    /\ taskq' = Tail(taskq)
    /\ nProp' = Bump(nProp, Head(taskq).idx)
    /\ UNCHANGED <<cfgvars, from_idx, dirvars, pc, list_feature, flist_speech, idx_start,
                   n_sub, q_data, ext, q_out, n_drained, saving,
                   nGet, nPut, nWrite, nMeta, run, snap, error, failed, fnvars>>

\* line 328: queue.put of the signal on the task's device queue
PropPut(w) ==
    /\ w \in DOMAIN prop
    /\ prop[w] # <<>>
    /\ LET t == prop[w][1]
           d == t.dev + 1
       IN  /\ CanPut(q_data[d], QDataCap)
           /\ q_data' = [q_data EXCEPT ![d] = QueuePut(@, Propagate(t))]
    /\ prop' = [prop EXCEPT ![w] = <<>>]
    /\ UNCHANGED <<cfgvars, from_idx, dirvars, pc, list_feature, flist_speech, idx_start,
                   n_sub, taskq, ext, q_out, n_drained, saving, histvars,
                   nMeta, run, snap, error, failed, fnvars>>

\* lines 350-403: q_data.get() and the computation of the FeatureRecord
ExtGet(d) ==
    /\ d \in DOMAIN ext
    /\ ext[d].left > 0
    /\ ext[d].hold = <<>>
    /\ q_data[d] # <<>>
    /\ ext' = [ext EXCEPT ![d].hold = <<DirSpecs(Head(q_data[d]))>>]
    /\ q_data' = [q_data EXCEPT ![d] = Tail(@)]
    /\ nGet' = Bump(nGet, Head(q_data[d]).idx)
    /\ UNCHANGED <<cfgvars, from_idx, dirvars, pc, list_feature, flist_speech, idx_start,
                   n_sub, taskq, prop, q_out, n_drained, saving,
                   nProp, nPut, nWrite, nMeta, run, snap, error, failed, fnvars>>

\* line 404: q_out.put of the FeatureRecord
ExtPut(d) ==
    /\ d \in DOMAIN ext
    /\ ext[d].hold # <<>>
    /\ CanPut(q_out, QOutCap)
    /\ q_out' = QueuePut(q_out, ext[d].hold[1])
    /\ ext' = [ext EXCEPT ![d] = [left |-> @.left - 1, hold |-> <<>>]]
    /\ nPut' = Bump(nPut, ext[d].hold[1].idx)
    /\ UNCHANGED <<cfgvars, from_idx, dirvars, pc, list_feature, flist_speech, idx_start,
                   n_sub, taskq, prop, q_data, n_drained, saving,
                   nProp, nGet, nWrite, nMeta, run, snap, error, failed, fnvars>>

\* lines 304-305: q_out.get() returns the next record
Drain ==
    /\ pc = "drain"
    /\ n_drained < NDrain(idx_start, n_feature)
    /\ q_out # <<>>
    /\ saving' = <<Head(q_out)>>
    /\ q_out' = Tail(q_out)
    /\ pc' = "got"
    /\ UNCHANGED <<cfgvars, from_idx, dirvars, list_feature, flist_speech,
                   idx_start, n_sub, taskq, prop, q_data, ext, n_drained,
                   histvars, nMeta, run, snap, error, failed, fnvars>>

\* lines 306-307: np.savez opens the file of the record under its final name
SaveOpen ==
    /\ pc = "got"
    /\ files' = WriteFile(files, SaveName(saving[1]), saving[1].dict_result, FALSE)
    /\ pc' = "save"
    /\ UNCHANGED <<cfgvars, from_idx, dir_exists, f_metadata, list_feature, flist_speech,
                   idx_start, procvars, histvars, nMeta, run, snap, error,
                   failed, fnvars>>

\* lines 307-310: np.savez completes, the progress bar advances
Save ==
    /\ pc = "save"
    /\ files' = WriteFile(files, SaveName(saving[1]), saving[1].dict_result, TRUE)
    /\ nWrite' = Bump(nWrite, saving[1].idx)
    /\ n_drained' = n_drained + 1
    /\ saving' = <<>>
    /\ pc' = "drain"
    /\ UNCHANGED <<cfgvars, from_idx, dir_exists, f_metadata, list_feature, flist_speech,
                   idx_start, n_sub, taskq, prop, q_data, ext, q_out,
                   nProp, nGet, nPut, nMeta, run, snap, error, failed, fnvars>>

\* mutant: a drain loop that stops one record early
DrainDoneBug ==
    /\ pc = "drain"
    /\ n_drained + 1 >= NDrain(idx_start, n_feature)
    /\ pc' = "join"
    /\ UNCHANGED <<cfgvars, from_idx, dirvars, list_feature, flist_speech, idx_start,
                   procvars, histvars, nMeta, run, snap, error, failed, fnvars>>

\* line 311: the drain loop has run len(range_feature) times
DrainDone ==
    /\ pc = "drain"
    /\ n_drained = NDrain(idx_start, n_feature)
    /\ pc' = "join"
    /\ UNCHANGED <<cfgvars, from_idx, dirvars, list_feature, flist_speech, idx_start,
                   procvars, histvars, nMeta, run, snap, error, failed, fnvars>>

\* lines 313-314: both joins return once every pool worker has finished
Join ==
    /\ pc = "join"
    /\ taskq = <<>>
    /\ \A w \in DOMAIN prop : prop[w] = <<>>
    /\ \A d \in DOMAIN ext : ext[d].left = 0
    /\ pc' = "final"
    /\ UNCHANGED <<cfgvars, from_idx, dirvars, list_feature, flist_speech, idx_start,
                   procvars, histvars, nMeta, run, snap, error, failed, fnvars>>

\* mutant: a process() that returns without the final print_save_info
FinalNoMeta ==
    /\ pc = "final"
    /\ pc' = "done"
    /\ UNCHANGED <<cfgvars, from_idx, dirvars, list_feature, flist_speech, idx_start,
                   procvars, histvars, nMeta, run, snap, error, failed, fnvars>>

\* line 316: print_save_info(n_feature)
Final ==
    /\ pc = "final"
    /\ f_metadata' = MetaOf(list_feature, flist_speech)
    /\ nMeta' = nMeta + 1
    /\ pc' = "done"
    /\ UNCHANGED <<cfgvars, from_idx, dir_exists, files, list_feature, flist_speech, idx_start,
                   procvars, histvars, run, snap, error, failed, fnvars>>

\* the planned feature files of the last k indices
LastK(L, k) ==
    {list_feature_to_fname(L)[i] : i \in (Len(L) - k + 1)..Len(L)}

PlannedNames(L) == {list_feature_to_fname(L)[i] : i \in 1..Len(L)}

\* after a completed run that left every planned file: some feature files are
\* deleted and the program is started again over the same directory, with
\* automatic resume or an explicit --from
Rerun ==
    /\ pc = "done"
    /\ run < MaxRuns
    /\ PlannedNames(list_feature) \subseteq DOMAIN files
    /\ \E D \in SUBSET PlannedNames(list_feature) :
          /\ files' = [x \in (DOMAIN files) \ D |-> files[x]]
          /\ snap' = [files |-> files, list |-> list_feature, deleted |-> D,
                      completed |-> TRUE]
    /\ from_idx' \in (0 - MaxNeg)..(MaxFeature + 1)
    /\ run' = run + 1
    /\ pc' = "main"
    /\ list_feature' = <<>> /\ flist_speech' = NoPaths
    /\ idx_start' = 0
    /\ ResetProcess
    /\ UNCHANGED <<cfgvars, dir_exists, f_metadata, fnvars>>

Next ==
    \/ Main
    \/ Ask
    \/ ProcessStart
    \/ Submit
    \/ SubmitDone
    \/ \E w \in 1..(MaxDev * PoolFactor) : PropTake(w)
    \/ \E w \in 1..(MaxDev * PoolFactor) : PropPut(w)
    \/ \E d \in 1..MaxDev : ExtGet(d)
    \/ \E d \in 1..MaxDev : ExtPut(d)
    \/ Drain
    \/ SaveOpen
    \/ Save
    \/ DrainDone
    \/ Join
    \/ Final
    \/ Rerun

Spec == Init /\ [][Next]_vars

\* ------------------------------------------------------------------ faults
\* the run is killed from outside while process() is active: every process
\* ends where it is; the output directory stays as it is at that moment, with
\* the file np.savez was writing
Kill ==
    /\ pc \in {"process", "submit", "drain", "got", "save", "join", "final"}
    /\ run <= FaultRuns
    /\ pc' = "killed"
    /\ n_sub' = 0 /\ taskq' = <<>> /\ prop' = <<>> /\ q_data' = <<>>
    /\ ext' = <<>> /\ q_out' = <<>> /\ saving' = <<>>
    /\ UNCHANGED <<cfgvars, from_idx, dirvars, list_feature, flist_speech, idx_start, n_drained,
                   histvars, nMeta, run, snap, error, failed, fnvars>>

\* lines 262 and 316, 407-425: the run is killed while print_save_info is
\* inside scio.savemat, which writes metadata.mat in place
KillMeta ==
    /\ pc \in {"process", "final"}
    /\ run <= FaultRuns
    /\ f_metadata' = Truncated
    /\ pc' = "killed"
    /\ n_sub' = 0 /\ taskq' = <<>> /\ prop' = <<>> /\ q_data' = <<>>
    /\ ext' = <<>> /\ q_out' = <<>> /\ saving' = <<>>
    /\ UNCHANGED <<cfgvars, from_idx, dir_exists, files, list_feature, flist_speech, idx_start,
                   n_drained, histvars, nMeta, run, snap, error, failed, fnvars>>

\* the program is started again, with automatic resume, over the directory a
\* killed run left
RerunKilled ==
    /\ pc = "killed"
    /\ run < MaxRuns
    /\ snap' = [files |-> files, list |-> list_feature, deleted |-> {},
                completed |-> FALSE]
    /\ from_idx' = FromDefault
    /\ run' = run + 1
    /\ pc' = "main"
    /\ list_feature' = <<>> /\ flist_speech' = NoPaths
    /\ idx_start' = 0
    /\ ResetProcess
    /\ UNCHANGED <<cfgvars, dirvars, fnvars>>

\* lines 291-295, 319-328: a propagate task raises; apply_async keeps the
\* exception in a result nobody reads, and the pool worker is free again
PropFail(w) ==
    /\ w \in DOMAIN prop
    /\ prop[w] # <<>>
    /\ run <= FaultRuns
    /\ Cardinality(failed) < MaxFail
    /\ failed' = failed \cup {<<"propagate", prop[w][1].idx>>}
    /\ prop' = [prop EXCEPT ![w] = <<>>]
    /\ UNCHANGED <<cfgvars, from_idx, dirvars, pc, list_feature, flist_speech, idx_start,
                   n_sub, taskq, q_data, ext, q_out, n_drained, saving, histvars,
                   nMeta, run, snap, error, fnvars>>

\* lines 278-285, 350-404: calc_dirspecs raises while it computes a record;
\* starmap_async keeps the exception in a result nobody reads, and the
\* Extractor has returned
ExtFail(d) ==
    /\ d \in DOMAIN ext
    /\ ext[d].hold # <<>>
    /\ run <= FaultRuns
    /\ Cardinality(failed) < MaxFail
    /\ failed' = failed \cup {<<"calc_dirspecs", ext[d].hold[1].idx>>}
    /\ ext' = [ext EXCEPT ![d] = [left |-> 0, hold |-> <<>>]]
    /\ UNCHANGED <<cfgvars, from_idx, dirvars, pc, list_feature, flist_speech, idx_start,
                   n_sub, taskq, prop, q_data, q_out, n_drained, saving, histvars,
                   nMeta, run, snap, error, fnvars>>

NextFault ==
    \/ Next
    \/ Kill
    \/ KillMeta
    \/ RerunKilled
    \/ \E w \in 1..(MaxDev * PoolFactor) : PropFail(w)
    \/ \E d \in 1..MaxDev : ExtFail(d)

SpecFault == Init /\ [][NextFault]_vars

\* every worker process and the Orchestrator run whenever they can: the
\* operating system schedules each runnable process, and a blocked put or get
\* returns once the queue allows it
Fairness ==
    /\ WF_vars(ProcessStart) /\ WF_vars(Submit) /\ WF_vars(SubmitDone)
    /\ \A w \in 1..(MaxDev * PoolFactor) : WF_vars(PropTake(w)) /\ WF_vars(PropPut(w))
    /\ \A d \in 1..MaxDev : WF_vars(ExtGet(d)) /\ WF_vars(ExtPut(d))
    /\ WF_vars(Drain) /\ WF_vars(SaveOpen) /\ WF_vars(Save) /\ WF_vars(DrainDone)
    /\ WF_vars(Join) /\ WF_vars(Final)

SpecFair == Init /\ [][Next]_vars /\ Fairness

\* a step of process() or of one of its workers
PipeStep ==
    \/ Submit \/ SubmitDone
    \/ \E w \in 1..(MaxDev * PoolFactor) : PropTake(w) \/ PropPut(w)
    \/ \E d \in 1..MaxDev : ExtGet(d) \/ ExtPut(d)
    \/ Drain \/ SaveOpen \/ Save \/ DrainDone \/ Join \/ Final

Running == pc \in {"submit", "drain", "got", "save", "join", "final"}

\* ------------------------------------------- the functions studied apart
\* the pipeline at rest, while one of its functions is studied
pipevars == <<cfgvars, from_idx, dirvars, pc, list_feature, flist_speech, idx_start, procvars,
              histvars, nMeta, run, snap, error, failed>>

PipeIdle ==
    /\ n_cuda_dev = MaxDev /\ cpu_count = 2 * MaxHalfCpu /\ from_idx = FromDefault
    /\ s_path_metadata = "" /\ n_per_room = MaxFeature /\ dt_bEQf = "complex128"
    /\ n_wav = NSpeech
    /\ dir_exists = FALSE /\ files = <<>> /\ f_metadata = <<>>
    /\ pc = "idle" /\ list_feature = <<>> /\ flist_speech = NoPaths /\ idx_start = 0
    /\ n_sub = 0 /\ taskq = <<>> /\ prop = <<>> /\ q_data = <<>>
    /\ ext = <<>> /\ q_out = <<>> /\ n_drained = 0 /\ saving = <<>>
    /\ nProp = Zero /\ nGet = Zero /\ nPut = Zero /\ nWrite = Zero
    /\ nMeta = 0 /\ run = 1 /\ snap = NoSnap
    /\ error = "" /\ failed = {}

\* ---- the constants: lines 486-514 and the start of each Extractor
\* after lines 486-496: Yenc and bnkr_inv are loaded, hp.DF is known
ConstInit ==
    /\ PipeIdle /\ SelIdle /\ MetaIdle /\ FrameIdle
    /\ use_dirac \in BOOLEAN
    /\ sftdata \in {LoadSFT(dtYenc, dtbEQf) : dtYenc \in FileDtypes, dtbEQf \in FileDtypes}
    /\ sftdata_cp = [d \in 1..MaxDev |-> <<>>]
    /\ path_taken = [d \in 1..MaxDev |-> ""]
    /\ fpc = "loaded"

\* lines 498-512
ConstSelect ==
    /\ fpc = "loaded"
    /\ sftdata' = SelectVariant(sftdata, use_dirac)
    /\ fpc' = "variant"
    /\ UNCHANGED <<pipevars, framevars, selvars, metavars, use_dirac, sftdata_cp, path_taken>>

\* line 514: sftdata = sftdata.as_single_prec()
ConstSingle ==
    /\ fpc = "variant"
    /\ IF as_single_prec(sftdata).raised # ""
       THEN fpc' = "raised" /\ sftdata' = sftdata
       ELSE fpc' = "single" /\ sftdata' = as_single_prec(sftdata).value
    /\ UNCHANGED <<pipevars, framevars, selvars, metavars, use_dirac, sftdata_cp, path_taken>>

\* lines 346-348: the Extractor of device d copies the constants to its device
ConstCopy(d) ==
    /\ fpc = "single"
    /\ sftdata_cp[d] = <<>>
    /\ sftdata_cp' = [sftdata_cp EXCEPT ![d] = <<DeviceCopy(sftdata)>>]
    /\ UNCHANGED <<pipevars, framevars, selvars, metavars, use_dirac, sftdata, path_taken, fpc>>

\* lines 358-393: the Extractor of device d processes an item
ConstExtract(d) ==
    /\ fpc = "single"
    /\ sftdata_cp[d] # <<>>
    /\ path_taken[d] = ""
    /\ path_taken' = [path_taken EXCEPT ![d] = ExtractorPath(use_dirac)]
    /\ UNCHANGED <<pipevars, framevars, selvars, metavars, use_dirac, sftdata, sftdata_cp, fpc>>

ConstNext ==
    \/ ConstSelect
    \/ ConstSingle
    \/ \E d \in 1..MaxDev : ConstCopy(d)
    \/ \E d \in 1..MaxDev : ConstExtract(d)

SpecConst == ConstInit /\ [][ConstNext]_vars

\* ---- the reference metadata: print_save_info of a related run, lines 537-560
\* the room identifiers of the runs that write reference metadata
Rooms == {room_create, "other", "o_r"}

\* the lists a run with ns speech files, nl locations and the given room can
\* plan: a sorted sample of product(range(ns), range(nl))
ListsOf(ns, nl, room) ==
    LET prod == [k \in 1..(ns * nl) |-> <<(k - 1) \div nl, room, (k - 1) % nl>>]
    IN  {[i \in 1..Cardinality(S) |-> prod[SortedSeq(S)[i]]] : S \in SUBSET (1..(ns * nl))}

\* lines 416-427: the metadata a run saves; path_all_speech is a character
\* matrix of n paths, chars characters each
RefMeta(L, ns, nc) ==
    [path_all_speech |-> [n |-> ns, chars |-> nc],
     list_fname |-> list_feature_to_fname(L)]

MetaInit ==
    /\ PipeIdle /\ SelIdle /\ ConstIdle /\ FrameIdle
    /\ \E ns \in 1..NSpeech, nl \in NLoc..(NLoc + ExtraLocRef), room \in Rooms :
          list_written \in ListsOf(ns, nl, room)
    /\ metadata_ref = <<>> /\ list_read = <<>> /\ n_speech = 0
    /\ fpc = "plan"

\* the related run saves its metadata; its speech list covers its speech indices
MetaSave ==
    /\ fpc = "plan"
    /\ \E ns \in 1..NSpeech, nc \in 1..MaxPath :
          /\ \A i \in 1..Len(list_written) : list_written[i][1] < ns
          /\ metadata_ref' = <<RefMeta(list_written, ns, nc)>>
    /\ fpc' = "saved"
    /\ UNCHANGED <<pipevars, framevars, selvars, constvars, list_written, list_read, n_speech>>

\* lines 537-547: the list and the speech paths are read from the reference;
\* a list_fname of one name raises ValueError at line 440, after n_speech
\* was set at line 544
MetaRead ==
    /\ fpc = "saved"
    /\ n_speech' = LenSpeechRead(metadata_ref[1].path_all_speech)
    /\ list_read' = list_fname_to_feature(SqueezeNames(metadata_ref[1].list_fname)).list
    /\ fpc' = IF list_fname_to_feature(SqueezeNames(metadata_ref[1].list_fname)).raised
              THEN "raised" ELSE "read"
    /\ UNCHANGED <<pipevars, framevars, selvars, constvars, list_written, metadata_ref>>

\* lines 549-560: without a reference the list is a fresh sample
MetaSample ==
    /\ fpc = "plan"
    /\ list_written = <<>>
    /\ n_speech' = n_wav
    /\ \E n \in 0..Len(ProductList) : list_read' \in Samples(n)
    /\ fpc' = "sampled"
    /\ UNCHANGED <<pipevars, framevars, selvars, constvars, list_written, metadata_ref>>

MetaNext == MetaSave \/ MetaRead \/ MetaSample

SpecMeta == MetaInit /\ [][MetaNext]_vars

\* ---- seltriag, lines 154-177
\* the entries of Ain: non-zero coefficients
SelValues == {1, 2}

\* every sequence over S of length at most n
RECURSIVE SeqsUpTo(_, _)
SeqsUpTo(S, n) ==
    IF n = 0 THEN {<<>>}
    ELSE SeqsUpTo(S, n - 1)
         \cup {Append(q, x) : q \in {r \in SeqsUpTo(S, n - 1) : Len(r) = n - 1}, x \in S}

SelInit ==
    /\ PipeIdle /\ MetaIdle /\ ConstIdle /\ FrameIdle
    /\ Ain \in SeqsUpTo(SelValues, MaxLen)
    /\ nrord \in 0..MaxOrd
    /\ shft \in {<<a, b>> : a \in {-1, 0, 1}, b \in {-1, 0, 1}}
    /\ Aout = <<>>
    /\ fpc = "call"

SelApply ==
    /\ fpc = "call"
    /\ Aout' = seltriag(Ain, nrord, shft)
    /\ fpc' = "returned"
    /\ UNCHANGED <<pipevars, framevars, metavars, constvars, Ain, nrord, shft>>

SelNext == SelApply

SpecSel == SelInit /\ [][SelNext]_vars

\* ---- framing: lines 516-522 of __main__, propagate, calc_dirspecs
\* the RIRs are loaded with squeeze_me=True and transposed over three axes
\* (lines 477-480), so that every axis, len_RIR included, is at least 2
FrameInit ==
    /\ PipeIdle /\ SelIdle /\ MetaIdle /\ ConstIdle
    /\ hpf \in FrameConfigs
    /\ len_speech \in 1..MaxSpeech
    /\ len_RIR \in 2..MaxRIR
    /\ t_peak = 0 /\ sig = <<>> /\ rec = <<>> /\ calls = {}
    /\ fpc = "main"

\* a00_RIRs = filter_overlap_add(p00_RIRs, ...); t_peak = a00_RIRs.argmax(axis=1)
FrameMain ==
    /\ fpc = "main"
    /\ calls' = calls \cup {filter_overlap_add(len_RIR, hpf)}
    /\ t_peak' \in 0..(filter_overlap_add(len_RIR, hpf).out - 1)
    /\ fpc' = "propagate"
    /\ UNCHANGED <<pipevars, selvars, metavars, constvars, hpf, len_speech,
                   len_RIR, sig, rec>>

FramePropagate ==
    /\ fpc = "propagate"
    /\ sig' = propagate(len_speech, len_RIR, t_peak)
    /\ fpc' = "extract"
    /\ UNCHANGED <<pipevars, selvars, metavars, constvars, hpf, len_speech,
                   len_RIR, t_peak, rec, calls>>

FrameExtract(dirac) ==
    /\ fpc = "extract"
    /\ calls' = calls \cup FreeCalls(sig, hpf) \cup RoomCalls(sig, dirac, hpf)
    /\ rec' = calc_dirspecs(sig, dirac, hpf)
    /\ fpc' = "returned"
    /\ UNCHANGED <<pipevars, selvars, metavars, constvars, hpf, len_speech,
                   len_RIR, t_peak, sig>>

FrameNext ==
    \/ FrameMain
    \/ FramePropagate
    \/ \E dirac \in BOOLEAN : FrameExtract(dirac)

SpecFrame == FrameInit /\ [][FrameNext]_vars

\* ------------------------------------------------------------------ claims

\* C1: with a pool of at least one Propagator and idx_start in 0..n_feature,
\* a run that has started its pools eventually reaches Shutdown having popped
\* exactly n_feature - idx_start records, with both pools joined, and no state
\* before Shutdown has every process blocked.
C1_Termination ==
    /\ [](Running /\ idx_start \in 0..n_feature => ENABLED PipeStep)
    /\ (pc = "submit" /\ idx_start \in 0..n_feature)
          ~> (pc = "done" /\ n_drained = n_feature - idx_start
                /\ taskq = <<>>
                /\ \A w \in DOMAIN prop : prop[w] = <<>>
                /\ \A d \in DOMAIN ext : ext[d].left = 0)

C1_Witness ==
    /\ pc = "done" /\ n_drained = 4 /\ n_cuda_dev = 2 /\ run = 1

\* C2: in one run every idx is propagated, taken by an Extractor, put on the
\* output queue and written at most once, and only for idx in
\* idx_start..n_feature-1; at Shutdown each idx of that range has been
\* propagated, taken and written exactly once.
C2_ExactlyOnce ==
    /\ \A i \in IdxDom :
          /\ nProp[i] <= 1 /\ nGet[i] <= nProp[i]
          /\ nPut[i] <= nGet[i] /\ nWrite[i] <= nPut[i]
          /\ i \notin idx_start..(n_feature - 1) => nProp[i] = 0 /\ nWrite[i] = 0
    /\ saving # <<>> => nWrite[saving[1].idx] = 0
    /\ pc = "done" =>
          \A i \in idx_start..(n_feature - 1) :
              nProp[i] = 1 /\ nGet[i] = 1 /\ nWrite[i] = 1

C2_Witness ==
    /\ pc = "done" /\ idx_start = 1 /\ n_feature = 4 /\ n_cuda_dev = 2
    /\ nWrite[1] = 1 /\ nWrite[3] = 1

\* C3: every device queue holds at most 3 PropagatedSignals and the output
\* queue at most 3 * n_dev FeatureRecords.
C3_QueueCapacity ==
    /\ \A d \in DOMAIN q_data : Len(q_data[d]) <= 3
    /\ Len(q_out) <= 3 * n_cuda_dev

C3_Witness ==
    \E d \in DOMAIN q_data : \E w \in DOMAIN prop :
        /\ Len(q_data[d]) = 3
        /\ prop[w] # <<>> /\ prop[w][1].dev + 1 = d

\* C4: a put on a full device queue does not complete before a get; every
\* change of a queue is a put that appends the message at the tail or a get
\* that hands the head, unchanged, to its consumer; the file saved holds the
\* content of the record received; at Shutdown every record put on the output
\* queue has been received and written.
C4_QueueStep ==
    /\ \A d \in (DOMAIN q_data) \cap (DOMAIN q_data') :
          /\ Len(q_data[d]) >= 3 => q_data'[d] \in {q_data[d], Tail(q_data[d])}
          /\ q_data'[d] # q_data[d] =>
                \/ \E w \in DOMAIN prop :
                      /\ prop[w] # <<>> /\ prop'[w] = <<>>
                      /\ q_data'[d] = Append(q_data[d], Propagate(prop[w][1]))
                \/ /\ q_data[d] # <<>> /\ q_data'[d] = Tail(q_data[d])
                   /\ ext'[d].hold = <<DirSpecs(Head(q_data[d]))>>
    /\ q_out' # q_out =>
          \/ \E d \in DOMAIN ext :
                /\ ext[d].hold # <<>> /\ ext'[d].hold = <<>>
                /\ q_out' = Append(q_out, ext[d].hold[1])
          \/ /\ q_out # <<>> /\ q_out' = Tail(q_out)
             /\ saving' = <<Head(q_out)>>
    /\ (pc = "save" /\ pc' = "drain") =>
          files'[<<saving[1].idx, saving[1].i_speech, room_create, saving[1].i_loc>>]
              = [data |-> saving[1].dict_result, complete |-> TRUE]

C4_Backpressure ==
    /\ [][C4_QueueStep]_vars
    /\ [](pc = "done" => q_out = <<>> /\ \A i \in IdxDom : nWrite[i] = nPut[i])

C4_Witness ==
    \E d \in DOMAIN q_data : \E w \in DOMAIN prop :
        /\ Len(q_data[d]) = 3 /\ ext[d].hold = <<>> /\ ext[d].left = 4
        /\ prop[w] # <<>> /\ prop[w][1].dev + 1 = d /\ prop[w][1].idx = 3

\* a Propagator, an Extractor, the Orchestrator that cannot take a step
PropBlocked(w) == w \in DOMAIN prop /\ prop[w] # <<>> /\ ~ENABLED PropPut(w)
ExtBlocked(d) ==
    d \in DOMAIN ext /\ ext[d].left > 0 /\ ~ENABLED ExtGet(d) /\ ~ENABLED ExtPut(d)
OrchBlocked ==
    /\ Running
    /\ ~ENABLED (Submit \/ SubmitDone \/ Drain \/ SaveOpen \/ Save \/ DrainDone
                   \/ Join \/ Final)

\* C5 as stated: a Propagator is blocked only putting to a full device queue,
\* an Extractor only getting from its empty device queue (never putting on
\* the output queue), the Orchestrator only getting from the output queue
\* during Drain.
C5_Original ==
    /\ \A w \in DOMAIN prop :
          PropBlocked(w) => Len(q_data[prop[w][1].dev + 1]) = 3
    /\ \A d \in DOMAIN ext :
          ExtBlocked(d) => ext[d].hold = <<>> /\ q_data[d] = <<>>
    /\ OrchBlocked => pc = "drain" /\ q_out = <<>>

\* C5 amended: an Extractor is blocked either getting from its empty device
\* queue or putting on the full output queue (3 * n_dev records); the other
\* two suspension points are as stated.
C5_Suspension ==
    /\ \A w \in DOMAIN prop :
          PropBlocked(w) => Len(q_data[prop[w][1].dev + 1]) = 3
    /\ \A d \in DOMAIN ext :
          ExtBlocked(d) =>
              \/ ext[d].hold = <<>> /\ q_data[d] = <<>>
              \/ ext[d].hold # <<>> /\ Len(q_out) = 3 * n_cuda_dev
    /\ OrchBlocked => pc = "drain" /\ q_out = <<>>

C5_Witness ==
    \E d \in DOMAIN ext :
        ExtBlocked(d) /\ ext[d].hold # <<>> /\ Len(q_out) = 3 * n_cuda_dev

\* every message in flight: tasks, signals, records
InFlight ==
    {taskq[i] : i \in DOMAIN taskq}
    \cup {prop[w][1] : w \in {v \in DOMAIN prop : prop[v] # <<>>}}
    \cup UNION {{[idx |-> q_data[d][i].idx, i_speech |-> q_data[d][i].i_speech,
                  i_loc |-> q_data[d][i].i_loc, dev |-> d - 1] :
                    i \in DOMAIN q_data[d]} : d \in DOMAIN q_data}

RecordsInFlight ==
    {ext[d].hold[1] : d \in {e \in DOMAIN ext : ext[e].hold # <<>>}}
    \cup {q_out[i] : i \in DOMAIN q_out}
    \cup {saving[i] : i \in DOMAIN saving}

\* C6: whatever the arrival order, the file written for a record is named
\* with the idx, speech_index and location_index of that record, holds the
\* content of that record, and these are (idx, list_feature[idx]) of the
\* FeatureTuple the record was computed from.
C6_WriteStep ==
    (pc = "got" /\ pc' = "save") =>
        LET r == saving[1]
            name == <<r.idx, r.i_speech, room_create, r.i_loc>>
        IN  /\ DOMAIN files' = (DOMAIN files) \cup {name}
            /\ files'[name].data = r.dict_result
            /\ \A x \in (DOMAIN files) \ {name} : files'[x] = files[x]

\* list_feature[idx] is defined for a python index of the list
IsIndex(i) == (0 - n_feature) <= i /\ i < n_feature

C6_Planned ==
    /\ \A t \in InFlight :
          /\ IsIndex(t.idx)
          /\ <<t.i_speech, room_create, t.i_loc>> = PyIndex(list_feature, t.idx)
    /\ \A r \in RecordsInFlight :
          /\ IsIndex(r.idx)
          /\ <<r.i_speech, room_create, r.i_loc>> = PyIndex(list_feature, r.idx)
          /\ r.dict_result = [path_speech |-> r.i_speech,
                              dirspec |-> <<r.i_speech, r.i_loc>>]

C6_NameFromRecord == [][C6_WriteStep]_vars /\ []C6_Planned

C6_Witness ==
    /\ pc = "save" /\ saving[1].idx > idx_start + n_drained
    /\ <<saving[1].idx, saving[1].i_speech, room_create, saving[1].i_loc>>
          \in DOMAIN files

\* the file name planned for idx i, and whether it is persisted
NameOf(i) == list_feature_to_fname(list_feature)[i + 1]
Persisted(i) == NameOf(i) \in DOMAIN files /\ files[NameOf(i)].complete

\* Dispatch begins: process() is entered and the tasks are being submitted
AtDispatch == pc \in {"process", "submit"}

NotBelowStart ==
    \A i \in IdxDom : i < idx_start => nProp[i] = 0 /\ nGet[i] = 0 /\ nWrite[i] = 0

\* C7 as stated: with a scanned or an explicit start index, every index below
\* idx_start is persisted when Dispatch begins, and no index below idx_start
\* is propagated, extracted or written.
C7_Original ==
    /\ AtDispatch => \A i \in 0..(idx_start - 1) : Persisted(i)
    /\ NotBelowStart

\* the planned file of idx i is in the output directory, complete or not
Present(i) == NameOf(i) \in DOMAIN files

\* C7 amended: when idx_start was found by the scan, every index below it
\* has its file in the output directory at Dispatch (a complete file, unless
\* a killed run left it partially written); for every start index no index
\* below it is propagated, extracted or written.
C7_ResumeCheck ==
    /\ (AtDispatch /\ from_idx = -1) =>
          \A i \in 0..(idx_start - 1) :
              Present(i) /\ (snap.completed \/ run = 1 => Persisted(i))
    /\ NotBelowStart

C7_Witness ==
    /\ run = 2 /\ from_idx = -1 /\ idx_start = 2 /\ n_feature = 4
    /\ pc = "done" /\ nWrite[2] = 1 /\ nWrite[3] = 1

\* the rerun of C8: after a completed run, the files of the last k planned
\* indices were deleted and the start index is automatic
RerunLastK ==
    /\ run > 1 /\ from_idx = -1 /\ snap.completed
    /\ \E k \in 0..Len(snap.list) : snap.deleted = LastK(snap.list, k)

\* C8: after a completed run that left every planned file, deleting the files
\* of the last k indices and rerunning with automatic resume plans the same
\* list, writes only deleted files, leaves every other file as it was, and
\* ends with the directory it had before the deletion (same names, same
\* content), each deleted index written exactly once.
C8_ResumeIdempotent ==
    RerunLastK =>
        /\ pc # "error"
        /\ pc # "main" => list_feature = snap.list
        /\ DOMAIN files \subseteq DOMAIN snap.files
        /\ \A x \in (DOMAIN snap.files) \ snap.deleted :
              x \in DOMAIN files /\ files[x] = snap.files[x]
        /\ pc # "main" =>
              \A i \in 0..(n_feature - 1) :
                  nWrite[i] > 0 => NameOf(i) \in snap.deleted
        /\ pc \in {"done", "exit"} =>
              /\ \A x \in DOMAIN snap.files :
                    x \in DOMAIN files /\ files[x] = snap.files[x]
              /\ \A i \in 0..(n_feature - 1) :
                    nWrite[i] = IF NameOf(i) \in snap.deleted THEN 1 ELSE 0

\* C9 as stated: at Shutdown the persisted indices are exactly
\* 0..n_feature-1, each under one file name, with an automatic or an explicit
\* start index.
C9_Original ==
    pc = "done" =>
        /\ {x[1] : x \in {y \in DOMAIN files : files[y].complete}} = 0..(n_feature - 1)
        /\ \A x, y \in DOMAIN files : x[1] = y[1] => x = y

\* the output directory held only files of the planned list before the run
OnlyPlannedBefore == DOMAIN snap.files \subseteq PlannedNames(list_feature)

\* C9 amended: at Shutdown every index of idx_start..n_feature-1 is persisted
\* under the name of its planned tuple; with an automatic start index every
\* index of 0..n_feature-1 has its planned file, those below idx_start as the
\* earlier runs left them (complete, unless a killed run left one partially
\* written); when the directory held only files of the planned list before
\* the run, it holds only those afterwards, no index occurs under two names
\* and, with an automatic start index, the indices are exactly 0..n_feature-1.
C9_ShutdownComplete ==
    pc = "done" =>
        /\ \A i \in idx_start..(n_feature - 1) : Persisted(i)
        /\ from_idx = -1 =>
              \A i \in 0..(n_feature - 1) :
                  Present(i) /\ (snap.completed \/ run = 1 => Persisted(i))
        /\ OnlyPlannedBefore =>
              /\ DOMAIN files \subseteq PlannedNames(list_feature)
              /\ \A x, y \in DOMAIN files : x[1] = y[1] => x = y
              /\ from_idx = -1 => {x[1] : x \in DOMAIN files} = 0..(n_feature - 1)

C9_Witness ==
    /\ pc = "done" /\ run = 2 /\ from_idx = -1 /\ idx_start = 1 /\ n_feature = 4
    /\ NameOf(2) \notin snap.deleted

\* the Resume check found every planned feature file (the start index being
\* automatic or an index of 0..n_feature)
ResumeAllExist ==
    /\ pc = "main" /\ pc' # "error" /\ from_idx >= -1
    /\ PlannedNames(list_feature') \subseteq DOMAIN files

NoOpExit ==
    /\ pc' = "exit" /\ nMeta' = 1
    /\ f_metadata' = MetaOf(list_feature', flist_speech')
    /\ files' = files /\ prop' = <<>> /\ ext' = <<>>

ExitIsIdle ==
    pc = "exit" =>
        /\ prop = <<>> /\ ext = <<>> /\ saving = <<>>
        /\ \A i \in IdxDom : nProp[i] = 0 /\ nWrite[i] = 0

\* C10 as stated: whenever every planned feature file exists at the Resume
\* check, the run writes RunMetadata and exits without starting a worker and
\* without writing a feature file.
C10_Original == [][ResumeAllExist => NoOpExit]_vars /\ []ExitIsIdle

\* C10 amended: the same, when the start index is automatic.
C10_NoOp ==
    /\ [][(ResumeAllExist /\ from_idx = -1) => NoOpExit]_vars
    /\ []ExitIsIdle

C10_Witness ==
    /\ pc = "exit" /\ run = 2 /\ from_idx = -1 /\ nMeta = 1
    /\ snap.deleted = {} /\ files = snap.files /\ n_feature = 4

\* the exceptions of the discovery phase: the reference metadata is missing,
\* from_idx exceeds n_feature (line 563 raises ArgumentError without its two
\* arguments, which is a TypeError), a constant has an unsupported dtype
DiscoveryErrors == {"Exception", "TypeError", "NotImplementedError"}

C11_Step ==
    pc = "main" =>
        /\ s_path_metadata # "" =>
              pc' = "error" /\ error' \in {"Exception", "NotImplementedError"}
        /\ pc' # "error" => from_idx <= Len(list_feature')
        /\ (pc' = "error" /\ error' = "TypeError") => from_idx > Len(list_feature')
        /\ pc' = "error" => error' \in DiscoveryErrors \cup {"ValueError"}

NoWorkDone ==
    /\ n_sub = 0 /\ taskq = <<>> /\ prop = <<>> /\ ext = <<>> /\ q_out = <<>>
    /\ saving = <<>>
    /\ \A i \in IdxDom : nProp[i] = 0 /\ nGet[i] = 0 /\ nWrite[i] = 0
    /\ run = 1 => files = <<>>
    /\ run > 1 => files = [x \in (DOMAIN snap.files) \ snap.deleted |-> snap.files[x]]

\* C11: a missing reference metadata file, a from_idx above the number of
\* planned features and a constant of unsupported dtype each end the run in
\* an error state in which no Propagator or Extractor task was submitted and
\* no feature file was written.
C11_DiscoveryAbort ==
    /\ [][C11_Step]_vars
    /\ []((pc = "error" /\ error \in DiscoveryErrors) => NoWorkDone)

C11_Witness ==
    /\ pc = "error" /\ error = "TypeError" /\ run = 2
    /\ from_idx = 5 /\ n_feature = 4 /\ files # <<>>

\* C12: when from_idx exceeds the number of planned features, the result
\* directory, the feature files and the metadata file are after the exit as
\* they were before the start.
C12_ArgumentErrorFrame ==
    [][(pc = "main" /\ pc' = "error" /\ error' = "TypeError") =>
          (dir_exists' = dir_exists /\ files' = files /\ f_metadata' = f_metadata)]_vars

\* C13 as stated: RunMetadata is written once per run, at the end of a
\* successful run or at the early exit, and at no other point.
C13_Original ==
    /\ nMeta <= 1
    /\ nMeta = 1 => pc \in {"done", "exit"}
    /\ pc = "done" => nMeta = 1

\* a metadata write: print_save_info saves the file names of list_feature
C13_WriteStep ==
    (nMeta' # nMeta /\ pc' # "main") =>
        /\ nMeta' = nMeta + 1
        /\ f_metadata' = MetaOf(list_feature', flist_speech')
        /\ files' = files
        /\ \/ pc = "process" /\ pc' \in {"submit", "error"} /\ nMeta = 0
           \/ pc = "final" /\ pc' = "done" /\ nMeta = 1
           \/ pc = "main" /\ pc' = "exit" /\ from_idx = -1 /\ nMeta = 0

C13_Count ==
    /\ pc \in {"main", "ask", "process"} => nMeta = 0
    /\ pc \in {"submit", "drain", "got", "save", "join", "final"} => nMeta = 1
    /\ pc = "done" => nMeta = 2
    /\ pc = "exit" => nMeta = (IF from_idx = -1 THEN 1 ELSE 0)
    /\ pc = "error" =>
          nMeta = (IF \/ error = "ValueError" /\ list_feature # <<>>
                      \/ error = "RuntimeError"
                   THEN 1 ELSE 0)
    /\ nMeta > 0 =>
          f_metadata = MetaOf(list_feature, flist_speech)

\* C13 amended: a run that enters process() writes RunMetadata twice, with
\* the same content: on entering process(), before a worker is started, and
\* at the end, after Drain and both joins; the early exit taken when no work
\* remains writes it once; a run that ends in a discovery error or is
\* declined at the prompt writes none; there is no other metadata write.
C13_MetadataWrites == [][C13_WriteStep]_vars /\ []C13_Count

C13_Witness ==
    /\ pc = "done" /\ nMeta = 2 /\ n_feature = 4 /\ idx_start = 0
    /\ f_metadata = MetaOf(list_feature, flist_speech)

\* the automatic Resume check took the file of index i for persisted
CountedPersisted(i) ==
    /\ from_idx = -1
    /\ \/ pc \in {"process", "submit", "drain", "got", "save", "join", "final",
                 "done"}
          /\ i < idx_start
       \/ pc = "exit"
    /\ i \in 0..(n_feature - 1)

\* C14: whenever a run is killed, also during a write, no feature file that
\* a later automatic Resume check counts as already persisted is a partially
\* written one.
C14_AtomicPersistence ==
    \A i \in 0..MaxFeature :
        CountedPersisted(i) =>
            NameOf(i) \in DOMAIN files /\ files[NameOf(i)].complete

\* C16: after a propagate task or an Extractor raised, the run does not end
\* as a success and is never in a state where the Orchestrator waits in Drain
\* while no process can take a step; it ends in an error state.
C16_WorkerFailureSurfaces ==
    failed # {} =>
        /\ pc # "done"
        /\ pc \in {"error", "killed"} \/ ENABLED PipeStep

\* the Orchestrator starts to write the file of the record it got from q_out
WriteBegins == pc = "got" /\ pc' = "save"

\* C15 as stated: once the feature file of a FeatureTuple exists, no later
\* action of the same run or of a later run writes that file again.
C15_Original ==
    [][WriteBegins =>
          <<saving[1].idx, saving[1].i_speech, room_create, saving[1].i_loc>>
              \notin DOMAIN files]_vars

C15_WriteStep ==
    WriteBegins =>
        LET r == saving[1]
            name == <<r.idx, r.i_speech, room_create, r.i_loc>>
        IN  /\ r.idx \in idx_start..(n_feature - 1)
            /\ nWrite[r.idx] = 0
            /\ \A x \in (DOMAIN files) \ {name} : x \in DOMAIN files' /\ files'[x] = files[x]
            /\ name \in DOMAIN files => files[name].data = r.dict_result

C15_BelowStart ==
    (run > 1 /\ pc \notin {"main", "error"}) =>
        \A i \in 0..(idx_start - 1) :
            Present(i) =>
                /\ NameOf(i) \in DOMAIN snap.files
                /\ files[NameOf(i)] = snap.files[NameOf(i)]

\* C15 amended: in one run a feature file is written at most once, and only
\* for an index of idx_start..n_feature-1; a later run writes again every
\* file from its idx_start on, whether it exists or not (the files above the
\* first missing index with automatic resume, the files from an explicit
\* start index on), with the same name and the same record content, and
\* leaves the files below idx_start as they were.
C15_WriteOnce ==
    /\ [][C15_WriteStep]_vars
    /\ []C15_BelowStart
    /\ [](pc = "done" => \A i \in idx_start..(n_feature - 1) : nWrite[i] = 1)

C15_Witness ==
    /\ run = 2 /\ from_idx = -1 /\ pc = "done" /\ n_feature = 4 /\ idx_start = 1
    /\ snap.deleted = {NameOf(1)}
    /\ nWrite[2] = 1 /\ nWrite[3] = 1 /\ nWrite[0] = 0
    /\ files = snap.files

\* the populated fields of an SFTData, and its two variants
Populated(sft) == {k \in SFTFields : sft[k] # "None"}
IntensityVariant(sft) ==
    {"Wpv_1_1_m1", "Wpv_1_0_0", "Wnv_1_0_0", "Wnv_1_1_1", "Vv_1_0_0", "Vv_1_1_0"}
        \subseteq Populated(sft) /\ "T_real" \notin Populated(sft)
DirectionVariant(sft) ==
    /\ "T_real" \in Populated(sft)
    /\ Populated(sft) \cap {"Wpv_1_1_m1", "Wpv_1_0_0", "Wnv_1_0_0", "Wnv_1_1_1",
                            "Vv_1_0_0", "Vv_1_1_0"} = {}

C17_State ==
    /\ fpc \in {"variant", "single", "raised"} =>
          /\ IntensityVariant(sftdata) \/ DirectionVariant(sftdata)
          /\ ~(IntensityVariant(sftdata) /\ DirectionVariant(sftdata))
          /\ DirectionVariant(sftdata) <=> use_dirac
    /\ \A d \in DOMAIN sftdata_cp :
          sftdata_cp[d] # <<>> =>
              /\ Populated(sftdata_cp[d][1]) = Populated(sftdata)
              /\ path_taken[d] # "" =>
                    (path_taken[d] = "direction" <=> sftdata_cp[d][1]["T_real"] # "None")

C17_Step ==
    fpc = "variant" => Populated(sftdata') = Populated(sftdata)

\* C17: after the constants are loaded exactly one variant of sftdata is
\* populated (the six intensity tensors and no T_real, or T_real and none of
\* the six); as_single_prec and the copy of each Extractor keep the set of
\* populated fields; an Extractor takes the direction-vector path exactly
\* when T_real is populated.
C17_VariantExclusive == []C17_State /\ [][C17_Step]_vars

C17_Witness ==
    /\ fpc = "single" /\ use_dirac /\ sftdata["bnkr_inv"] = "complex64"
    /\ path_taken[1] = "direction" /\ path_taken[2] = ""
    /\ sftdata_cp[2] # <<>> /\ sftdata_cp[2][1]["Wpv_1_0_0"] = "None"

\* C18: every FeatureTuple of the planned list, freshly sampled or read back
\* from reference metadata, has 0 <= location_index < n_loc and
\* 0 <= speech_index < n_speech, n_speech being the length of the speech path
\* list in use.
C18_TupleRange ==
    fpc \in {"read", "sampled"} =>
        \A i \in 1..Len(list_read) :
            /\ 0 <= list_read[i][3] /\ list_read[i][3] < NLoc
            /\ 0 <= list_read[i][1] /\ list_read[i][1] < n_speech

C18_Witness ==
    /\ fpc = "read" /\ Len(list_written) = 4 /\ Len(list_read) = 3
    /\ n_speech = 2 /\ list_read[3] = <<1, "room", 1>>

\* C19, in what it says of a list L whose location indices are all below the
\* n_loc of the reading run: reading back the file names of L does not raise
\* and gives as many tuples as L has, in the order of L, each with the speech
\* index and the location index of its tuple of L, and equal to that tuple
\* when it carries the room of the reading run.
C19_RoundTrip ==
    (/\ fpc \in {"read", "raised"}
     /\ \A i \in 1..Len(list_written) : list_written[i][3] < NLoc) =>
        /\ fpc = "read"
        /\ Len(list_read) = Len(list_written)
        /\ \A i \in 1..Len(list_read) :
              /\ list_read[i][1] = list_written[i][1]
              /\ list_read[i][3] = list_written[i][3]
              /\ list_written[i][2] = room_create => list_read[i] = list_written[i]

\* C20: seltriag(Ain, 0, (0, 0)) returns Ain[i] at every index i below the
\* length of Ain and zero at every index from that length on.
C20_ZeroShiftIdentity ==
    (fpc = "returned" /\ nrord = 0 /\ shft = <<0, 0>>) =>
        /\ Len(Aout) >= Len(Ain)
        /\ \A i \in 1..Len(Aout) :
              Aout[i] = (IF i <= Len(Ain) THEN Ain[i] ELSE 0)

C20_Witness ==
    /\ fpc = "returned" /\ nrord = 0 /\ shft = <<0, 0>>
    /\ Ain = <<1, 2, 2, 1, 2>> /\ Aout = <<1, 2, 2, 1, 2, 0, 0, 0, 0>>

\* C21 as stated: in every FeatureRecord dirspec_free and dirspec_room have
\* the same number of frequency bins and of time frames, and each phase array
\* has the frequency-time shape of the spectrogram of its condition.
PhaseShapes ==
    /\ rec.phase_free = <<rec.dirspec_free[1], rec.dirspec_free[2], 1>>
    /\ rec.phase_room = <<rec.dirspec_room[1], rec.dirspec_room[2], 1>>

C21_Original ==
    fpc = "returned" =>
        /\ rec.dirspec_free[1] = rec.dirspec_room[1]
        /\ rec.dirspec_free[2] = rec.dirspec_room[2]
        /\ PhaseShapes

\* C21 (amended): dirspec_free and dirspec_room have the same number of
\* frequency bins and four channels; dirspec_free has the time frames of the
\* t_peak + len(speech) samples of the delayed speech, dirspec_room those of
\* the len(speech) + len(RIR) - 1 samples of the convolution, which are never
\* fewer, and are more when the extra samples reach a further hop; each phase
\* array has the shape of the spectrogram of its condition.
C21_Shapes ==
    fpc = "returned" =>
        /\ rec.dirspec_free[1] = hpf.n_freq /\ rec.dirspec_room[1] = hpf.n_freq
        /\ rec.dirspec_free[3] = 4 /\ rec.dirspec_room[3] = 4
        /\ rec.dirspec_free[2] = (t_peak + len_speech) \div hpf.l_hop + 1
        /\ rec.dirspec_room[2] = (len_speech + len_RIR - 1) \div hpf.l_hop + 1
        /\ rec.dirspec_free[2] <= rec.dirspec_room[2]
        /\ PhaseShapes

\* a record whose room spectrogram has more frames than the free-field one
C21_Witness ==
    /\ fpc = "returned"
    /\ rec.dirspec_free[2] < rec.dirspec_room[2]
    /\ rec.dirspec_free[1] = rec.dirspec_room[1]

\* C22: for a source of order N, nrord in 0..N and a shift in {-1,0,1}^2,
\* seltriag raises nothing, its result has (N - nrord + 1)^2 entries, no
\* output index is assigned twice, an entry is copied from Ain[m + n*(n+1)]
\* only when 0 <= n <= N, -n <= m <= n and 0 <= m + n*(n+1) < len(Ain), and
\* every other entry is zero.
SelOrder == CeilSqrt(Len(Ain)) - 1

C22_SeltriagSafe ==
    (fpc = "returned" /\ Len(Ain) >= 1 /\ nrord <= SelOrder) =>
        LET W == SelWrites(Ain, nrord, shft) IN
        /\ ~SelRaises(Ain, nrord, shft)
        /\ ~SelWraps(Ain, nrord, shft)
        /\ Len(Aout) = (SelOrder - nrord + 1) * (SelOrder - nrord + 1)
        /\ \A w1 \in W, w2 \in W : w1.idx = w2.idx => w1 = w2
        /\ \A w \in W :
              /\ 0 <= w.n /\ w.n <= SelOrder
              /\ 0 - w.n <= w.m /\ w.m <= w.n
              /\ w.idx_from = w.m + w.n * (w.n + 1)
              /\ 0 <= w.idx_from /\ w.idx_from < Len(Ain)
              /\ w.idx < Len(Aout)
              /\ Aout[w.idx + 1] = Ain[w.idx_from + 1]
        /\ \A k \in 1..Len(Aout) :
              (~\E w \in W : w.idx = k - 1) => Aout[k] = 0

\* a shifted selection of a full order-2 source that copies some entries and
\* zero-fills others
C22_Witness ==
    /\ fpc = "returned" /\ Len(Ain) = 9 /\ nrord = 1 /\ shft = <<-1, -1>>
    /\ Len(Aout) = 4
    /\ \E k \in 1..4 : Aout[k] = 0
    /\ \E k \in 1..4 : Aout[k] # 0

\* C23: the final metadata write of a run that had work to do happens only
\* after every record of the run has been persisted, both pools have been
\* closed to new work and both pools have been joined; once it is written the
\* run writes no feature file any more.
FinalWrite == pc = "final" /\ pc' = "done"

PoolsClosed == n_sub = Len(Tasks(list_feature, idx_start, n_cuda_dev))

PoolsJoined ==
    /\ taskq = <<>>
    /\ \A w \in DOMAIN prop : prop[w] = <<>>
    /\ \A d \in DOMAIN ext : ext[d].left = 0 /\ ext[d].hold = <<>>

C23_FinalStep ==
    FinalWrite =>
        /\ n_drained = n_feature - idx_start
        /\ \A i \in idx_start..(n_feature - 1) : nWrite[i] = 1 /\ Persisted(i)
        /\ saving = <<>>
        /\ PoolsClosed /\ PoolsJoined
        /\ nMeta' = nMeta + 1

C23_AfterFinal ==
    (pc = "done" /\ run' = run) => (files' = files /\ nWrite' = nWrite)

C23_ShutdownOrder == [][C23_FinalStep]_vars /\ [][C23_AfterFinal]_vars

\* a first run over two devices that persisted three records before its
\* final metadata write
C23_Witness ==
    /\ pc = "done" /\ run = 1 /\ n_cuda_dev = 2 /\ n_feature = 3
    /\ idx_start = 0 /\ n_drained = 3 /\ nMeta = 2

\* C24: the signal of feature index idx is put on device queue
\* (idx - idx_start) mod n_dev, and the numbers of signals routed to any two
\* device queues differ by at most one and sum to n_feature - idx_start.
RoutedTo(d) ==
    Cardinality({k \in 1..Len(Tasks(list_feature, idx_start, n_cuda_dev)) :
                    Tasks(list_feature, idx_start, n_cuda_dev)[k].dev = d})

Dispatched == pc \in {"submit", "drain", "got", "save", "join", "final", "done"}

RECURSIVE SumRouted(_)
SumRouted(d) == IF d < 0 THEN 0 ELSE RoutedTo(d) + SumRouted(d - 1)

C24_Routing ==
    Dispatched =>
        /\ \A d \in DOMAIN q_data : \A k \in 1..Len(q_data[d]) :
              (q_data[d][k].idx - idx_start) % n_cuda_dev = d - 1
        /\ \A w \in DOMAIN prop :
              prop[w] # <<>> => prop[w][1].dev = (prop[w][1].idx - idx_start) % n_cuda_dev
        /\ \A d1 \in 0..(n_cuda_dev - 1), d2 \in 0..(n_cuda_dev - 1) :
              RoutedTo(d1) - RoutedTo(d2) <= 1
        /\ SumRouted(n_cuda_dev - 1) = n_feature - idx_start

\* C25 as stated: filter_overlap_add returns a signal of exactly the input
\* length, for every input length and every (n_fft, l_frame, l_hop).
OlaCalls == {c \in calls : c.fn = "filter_overlap_add"}

C25_Original == \A c \in OlaCalls : c.out = c.len

\* C25 (amended): filter_overlap_add returns
\* min(len_original, n_fft - n_fft // 2 + l_hop * (len_original // l_hop))
\* samples; this is the input length whenever l_hop <= n_fft - n_fft // 2 + 1,
\* in particular for a hop of half the fft size.
HopCovered == hpf.l_hop <= hpf.n_fft - (hpf.n_fft \div 2) + 1

C25_OutputLength ==
    \A c \in OlaCalls :
        /\ c.len_istft = hpf.n_fft + hpf.l_hop * (c.len \div hpf.l_hop)
        /\ c.out = Min(c.len, c.len_istft - (hpf.n_fft \div 2))
        /\ HopCovered => c.out = c.len
        /\ c.out >= 1

\* a signal longer than the fft size, not a multiple of the hop, filtered
\* with a hop of half the fft size and returned at its length
C25_Witness ==
    /\ hpf.n_fft = 4 /\ hpf.l_hop = 2
    /\ \E c \in OlaCalls : c.len = 7 /\ c.out = 7 /\ c.len_istft = 10

\* C26: in every reachable state, killed runs included, if the run has
\* written a feature file then metadata.mat holds the run's FeatureTuple
\* list; and an automatic resume after an interruption that left feature
\* files plans the list of the interrupted run and dispatches from it.
WroteFeature == saving # <<>> \/ \E i \in IdxDom : nWrite[i] > 0

ResumesInterrupted ==
    /\ run > 1 /\ ~snap.completed /\ from_idx = FromDefault
    /\ DOMAIN snap.files # {}
    /\ pc # "main"

C26_ManifestFirst ==
    /\ WroteFeature => f_metadata = MetaOf(list_feature, flist_speech)
    /\ ResumesInterrupted => (pc # "error" /\ list_feature = snap.list)

\* C27: the item count n_data of Extractor d, len(list_feature[idx_start + d
\* :: n_dev]), equals the number of propagation tasks routed to queue d; and
\* at Shutdown every device queue and the output queue are empty, every
\* Extractor has returned and no Propagator holds a signal.
C27_QuotasMatch ==
    /\ Dispatched =>
          \A d \in 0..(n_cuda_dev - 1) :
              NData(list_feature, idx_start, d, n_cuda_dev) = RoutedTo(d)
    /\ pc \in {"final", "done"} =>
          /\ \A d \in DOMAIN q_data : q_data[d] = <<>>
          /\ q_out = <<>>
          /\ PoolsJoined

\* C28: in every run that reaches Dispatch, whatever the value of --from,
\* 0 <= idx_start <= n_feature, as many propagation tasks are submitted as
\* the drain loop has iterations, and every file the run writes carries an
\* idx of 0..n_feature-1 and the tuple list_feature[idx].
C28_StartRange ==
    Dispatched =>
        /\ 0 <= idx_start /\ idx_start <= n_feature
        /\ Len(Tasks(list_feature, idx_start, n_cuda_dev)) = NDrain(idx_start, n_feature)
        /\ \A i \in IdxDom : nWrite[i] > 0 => i \in 0..(n_feature - 1) /\ Persisted(i)
        /\ saving # <<>> =>
              /\ saving[1].idx \in 0..(n_feature - 1)
              /\ SaveName(saving[1]) = NameOf(saving[1].idx)

\* C29: whenever process() is entered, the Propagator pool size
\* min(3 * n_dev, cpu_count // 2 - 1 - n_dev) is at least 1, so mp.Pool can
\* be created.
C29_PoolSize == pc = "process" => PoolSize >= 1

\* C30: every frame i < n_frame of the strided view, in stft and in
\* filter_overlap_add, ends within the padded signal, i * l_hop + l_frame <=
\* padded length, and every overlap-add slice of filter_overlap_add ends
\* within the output buffer of n_fft + l_hop * (n_frame - 1) samples.
C30_FramesInside ==
    /\ \A c \in calls :
          /\ c.n_frame >= 1
          /\ \A i \in 0..(c.n_frame - 1) : i * hpf.l_hop + hpf.l_frame <= c.padded
    /\ \A c \in OlaCalls :
          /\ c.len_istft = hpf.n_fft + hpf.l_hop * (c.n_frame - 1)
          /\ \A i \in 0..(c.n_frame - 1) : i * hpf.l_hop + hpf.l_frame <= c.len_istft

\* a filtered signal and a transformed signal of several frames each, the
\* last frame of the filter ending exactly at the end of the padded signal
C30_Witness ==
    /\ fpc = "returned"
    /\ \E c \in OlaCalls :
          /\ c.n_frame >= 3
          /\ (c.n_frame - 1) * hpf.l_hop + hpf.l_frame = c.padded
    /\ \E c \in calls : c.fn = "stft" /\ c.n_frame >= 3

====
